---------------------------- MODULE Spec2Model ----------------------------
(***************************************************************************)
(* Micromechanical Monte Carlo energy engine (ecmLab/firstPrinciple,       *)
(* mcecm): the five MPI scripts sporc_mpi6.py, mac1.py, debug.py, mac6.py  *)
(* and mac5.py.                                                            *)
(*                                                                         *)
(* Arithmetic.  The scripts compute in floating point; the model computes  *)
(* the same quantities exactly, as integers over a fixed denominator:      *)
(*   - strains are held multiplied by gamma_0 (so 1 + epsilon_a/gamma_0    *)
(*     is gamma_0 + epsilon_a), with epsilon_a and gamma_0 in tenths;      *)
(*   - the stiffness tensor is held multiplied by anisoPar (C11 = 4/a is   *)
(*     4, C12 is 2, C44 = 1 is a);                                         *)
(*   - a kernel entry B(q) is a rational tensor num/den whose denominator  *)
(*     is the determinant of the acoustic tensor; every B(q) is brought    *)
(*     to the common denominator KernelDen;                                *)
(*   - a spectrum entry is a pair <<re, im>>; the lattice side divides 4,  *)
(*     so every twiddle factor is one of 1, -i, -1, i;                     *)
(*   - an energy is the integer numerator of the real energy over the      *)
(*     script's fixed positive denominator (kernel denominator, strain     *)
(*     scale and the script's normalisation 1, 2N^3 or 16 pi^3).           *)
(***************************************************************************)
EXTENDS Integers, Sequences, FiniteSets, TLC

Idx == 0..2

Abs(v) == IF v < 0 THEN -v ELSE v

RECURSIVE Gcd(_, _)
Gcd(u, v) == IF v = 0 THEN Abs(u) ELSE Gcd(v, u % v)

Lcm(u, v) == (Abs(u) \div Gcd(u, v)) * Abs(v)

\* sum of f(0) .. f(m-1)
SumN(m, f(_)) ==
    LET S[k \in 0..m] == IF k = 0 THEN 0 ELSE S[k - 1] + f(k - 1)
    IN  S[m]

Sum3(f(_)) == f(0) + f(1) + f(2)

\* the value v itself; comparing it makes TLC tabulate the functions in it
\* once instead of recomputing an entry on every application, and the bound
\* w keeps v from being evaluated more than once
Force(v) == CHOOSE w \in {v} : w = w

(***************************************************************************)
(* Material model                                                          *)
(***************************************************************************)
ZeroMat == [i \in Idx |-> [j \in Idx |-> 0]]

\* epsilon_s for s = 1, 2, 3, multiplied by gamma_0
define_dimensionless_strains(epsilon_a, gamma_0) ==
    Force([s \in 1..3 |->
        [i \in Idx |-> [j \in Idx |->
            IF i # j THEN 0
            ELSE IF i = s - 1 THEN gamma_0 + epsilon_a ELSE epsilon_a]]])

\* the shear branch as "elif i == l and j == k": C44 lands on C[i, j, j, i]
precompute_stiffness_tensor_swapped(anisoPar) ==
    Force([i \in Idx |-> [j \in Idx |-> [k \in Idx |-> [l \in Idx |->
        IF i = j /\ k = l THEN (IF i = k THEN 4 ELSE 2)
        ELSE IF i = l /\ j = k THEN (IF i # j THEN anisoPar ELSE 0)
        ELSE 0]]]])

\* C multiplied by anisoPar
precompute_stiffness_tensor(anisoPar) ==
    Force([i \in Idx |-> [j \in Idx |-> [k \in Idx |-> [l \in Idx |->
        IF i = j /\ k = l THEN (IF i = k THEN 4 ELSE 2)
        ELSE IF i = k /\ j = l THEN (IF i # j THEN anisoPar ELSE 0)
        ELSE 0]]]])

(***************************************************************************)
(* Lattice and reciprocal grid                                             *)
(***************************************************************************)
Sites(n) == (0..(n - 1)) \X (0..(n - 1)) \X (0..(n - 1))

\* row-major site of a flat index (numpy reshape(-1) order)
SiteOf(n, f) == <<f \div (n * n), (f \div n) % n, f % n>>

\* np.fft.fftfreq(n) * n: the integer frequency of grid index k
fftfreq(n, k) == IF k < (n + 1) \div 2 THEN k ELSE k - n

WaveVec(n, q) == [c \in Idx |-> fftfreq(n, q[c + 1])]

Norm2(m) == m[0] * m[0] + m[1] * m[1] + m[2] * m[2]

Det3(M) ==
      M[0][0] * (M[1][1] * M[2][2] - M[1][2] * M[2][1])
    - M[0][1] * (M[1][0] * M[2][2] - M[1][2] * M[2][0])
    + M[0][2] * (M[1][0] * M[2][1] - M[1][1] * M[2][0])

\* adjugate: Adj3(M) = det(M) * inverse(M)
Adj3(M) ==
    LET Cof(r, c) ==
            LET r1 == (r + 1) % 3
                r2 == (r + 2) % 3
                c1 == (c + 1) % 3
                c2 == (c + 2) % 3
            IN  M[r1][c1] * M[r2][c2] - M[r1][c2] * M[r2][c1]
    IN  [i \in Idx |-> [j \in Idx |-> Cof(j, i)]]


(***************************************************************************)
(* Reciprocal kernel builder.  With m the integer wavevector of q and      *)
(* C the stiffness tensor times anisoPar, the acoustic tensor G_inv of the *)
(* source is K / (anisoPar * |m|^2) for the integer matrix K computed      *)
(* here, so G = anisoPar * |m|^2 * Adj3(K) / Det3(K), and                   *)
(* anisoPar * B(q) is the rational tensor num / den returned below.        *)
(***************************************************************************)
\* mac6.py, mac5.py: np.einsum("imjn,m,n->ij", stiffness_tensor, k_unit, k_unit)
G_inv_imjn(C, m) ==
    [i \in Idx |-> [j \in Idx |->
        Sum3(LAMBDA a : Sum3(LAMBDA b : C[i][a][j][b] * m[a] * m[b]))]]

\* sporc_mpi6.py, mac1.py, debug.py: np.einsum("ijmn,m,n->ij", ...)
G_inv_ijmn(C, m) ==
    [i \in Idx |-> [j \in Idx |->
        Sum3(LAMBDA a : Sum3(LAMBDA b : C[i][j][a][b] * m[a] * m[b]))]]

\* B(q) of the intermediate-tensor builder (mac6.py, mac5.py)
KernelEntryIntermediate(C, m) ==
    LET K   == Force(G_inv_imjn(C, m))
        det == Det3(K)
        adj == Force(Adj3(K))
        intermediate_1 == Force([q \in Idx |-> [i \in Idx |-> [j \in Idx |->
                              Sum3(LAMBDA p : m[p] * C[p][q][i][j])]]])
        intermediate_2 == Force([i \in Idx |-> [j \in Idx |-> [r \in Idx |->
                              Sum3(LAMBDA q : intermediate_1[q][i][j] * adj[q][r])]]])
        intermediate_3 == Force([r \in Idx |-> [k \in Idx |-> [l \in Idx |->
                              Sum3(LAMBDA s : C[r][s][k][l] * m[s])]]])
    IN  IF det = 0
        THEN [num |-> C, den |-> 1]
        ELSE [num |-> Force([i \in Idx |-> [j \in Idx |-> [k \in Idx |-> [l \in Idx |->
                         det * C[i][j][k][l]
                         - Sum3(LAMBDA r : intermediate_2[i][j][r] * intermediate_3[r][k][l])]]]]),
              den |-> det]

\* B(q) of the per-entry einsum builder (sporc_mpi6.py, mac1.py, debug.py):
\* np.einsum("mn,im,nj->", G, C[:, :, i, j], C[:, :, k, l])
KernelEntryEinsum(C, m) ==
    LET K   == Force(G_inv_ijmn(C, m))
        det == Det3(K)
        adj == Force(Adj3(K))
        \* sum over the first index of C[:, :, i, j], and over the second of C[:, :, k, l]
        left  == Force([a \in Idx |-> [i \in Idx |-> [j \in Idx |->
                     Sum3(LAMBDA p : C[p][a][i][j])]]])
        right == Force([b \in Idx |-> [k \in Idx |-> [l \in Idx |->
                     Sum3(LAMBDA q : C[b][q][k][l])]]])
    IN  IF det = 0
        THEN [num |-> C, den |-> 1]
        ELSE [num |-> Force([i \in Idx |-> [j \in Idx |-> [k \in Idx |-> [l \in Idx |->
                         det * C[i][j][k][l]
                         - Norm2(m) * Sum3(LAMBDA a : Sum3(LAMBDA b :
                               adj[a][b] * left[a][i][j] * right[b][k][l]))]]]]),
              den |-> det]

ZeroTensor == [i \in Idx |-> [j \in Idx |-> [k \in Idx |-> [l \in Idx |-> 0]]]]

KernelEntry(builder, C, m) ==
    IF builder = "intermediate" THEN KernelEntryIntermediate(C, m)
    ELSE KernelEntryEinsum(C, m)

\* the least common denominator of the kernel entries of the n x n x n grid
KernelDenOf(n, raw) ==
    LET L[f \in 0..(n * n * n)] ==
            IF f = 0 THEN 1 ELSE Lcm(L[f - 1], raw[SiteOf(n, f - 1)].den)
    IN  L[n * n * n]

\* "if k[0] == 0: continue": the test reads one component of k
KernelSkippedFirstAxis(n, q) == WaveVec(n, q)[0] = 0

\* "if np.linalg.norm(k) == 0: continue": the builder assigns nothing at q
KernelSkipped(n, q) == Norm2(WaveVec(n, q)) = 0

\* B[q] times anisoPar * den, for every grid point q; B stays zero where
\* the builder skips
precompute_reciprocal_space_and_kernel(n, C, builder) ==
    LET raw == Force([q \in Sites(n) |->
                   IF KernelSkipped(n, q)
                   THEN [num |-> ZeroTensor, den |-> 1]
                   ELSE KernelEntry(builder, C, WaveVec(n, q))])
        D   == KernelDenOf(n, raw)
    IN  [den |-> D,
         B   |-> Force([q \in Sites(n) |->
                    [i \in Idx |-> [j \in Idx |-> [k \in Idx |-> [l \in Idx |->
                        raw[q].num[i][j][k][l] * (D \div raw[q].den)]]]]])]

(***************************************************************************)
(* Strain field and spectrum                                               *)
(***************************************************************************)
\* the innermost loop as range(N - 1): the last plane keeps its zeros
compute_strain_field_short(n, lattice, eps) ==
    Force([x \in Sites(n) |->
        IF x[3] = n - 1 THEN ZeroMat
        ELSE IF lattice[x] = 1 THEN eps[1]
        ELSE IF lattice[x] = 2 THEN eps[2]
        ELSE IF lattice[x] = 3 THEN eps[3]
        ELSE ZeroMat])

\* the last branch as a plain "else": any other spin takes epsilon_3
compute_strain_field_else(n, lattice, eps) ==
    Force([x \in Sites(n) |->
        IF lattice[x] = 1 THEN eps[1]
        ELSE IF lattice[x] = 2 THEN eps[2]
        ELSE eps[3]])

compute_strain_field(n, lattice, eps) ==
    Force([x \in Sites(n) |->
        IF lattice[x] = 1 THEN eps[1]
        ELSE IF lattice[x] = 2 THEN eps[2]
        ELSE IF lattice[x] = 3 THEN eps[3]
        ELSE ZeroMat])

\* exp(-2 pi i t / n) for n dividing 4, as <<re, im>>
Twiddle(n, t) ==
    LET quarter == ((t % n) * (4 \div n)) % 4
    IN  IF quarter = 0 THEN <<1, 0>>
        ELSE IF quarter = 1 THEN <<0, -1>>
        ELSE IF quarter = 2 THEN <<-1, 0>>
        ELSE <<0, 1>>

\* np.fft.fftn(field, axes=(0, 1)): the third axis is left untransformed
fftnTwoAxes(n, field) ==
    Force([q \in Sites(n) |-> [i \in Idx |-> [j \in Idx |->
        LET Term(f, part) ==
                LET x == <<f \div n, f % n, q[3]>>
                IN  field[x][i][j] * Twiddle(n, q[1] * x[1] + q[2] * x[2])[part]
        IN  <<SumN(n * n, LAMBDA f : Term(f, 1)),
              SumN(n * n, LAMBDA f : Term(f, 2))>>]]])

\* np.fft.fftn(field, axes=(0, 1, 2)): entries are pairs <<re, im>>; a
\* component that is zero at every site transforms to zero
fftn(n, field) ==
    CHOOSE ft \in
        {Force([q \in Sites(n) |-> [i \in Idx |-> [j \in Idx |->
            LET Term(f, part) ==
                    LET x == SiteOf(n, f)
                    IN  field[x][i][j]
                        * Twiddle(n, q[1] * x[1] + q[2] * x[2] + q[3] * x[3])[part]
            IN  IF zero[i][j] THEN <<0, 0>>
                ELSE <<SumN(n * n * n, LAMBDA f : Term(f, 1)),
                       SumN(n * n * n, LAMBDA f : Term(f, 2))>>]]]) :
         zero \in {Force([i \in Idx |-> [j \in Idx |->
                     \A f \in 0..(n * n * n - 1) : field[SiteOf(n, f)][i][j] = 0]])}} :
        TRUE

(***************************************************************************)
(* Energy evaluator                                                        *)
(***************************************************************************)
\* np.real(np.einsum("ij,ijkl,kl->", e, B, e.conj())); a term with a zero
\* factor e[i][j] is zero
Contraction(e, Bq) ==
    Sum3(LAMBDA i : Sum3(LAMBDA j :
        IF e[i][j] = <<0, 0>> THEN 0
        ELSE Sum3(LAMBDA k : Sum3(LAMBDA l :
                 Bq[i][j][k][l] * (e[i][j][1] * e[k][l][1] + e[i][j][2] * e[k][l][2])))))

\* range(rank + 1, N, size): the slabs start one index late
SlabStartsLate(n, rank, size) ==
    {qx \in 0..(n - 1) : qx >= rank + 1 /\ (qx - rank - 1) % size = 0}

\* range(rank, N, size)
Slab(n, rank, size) == {qx \in 0..(n - 1) : qx >= rank /\ (qx - rank) % size = 0}

\* np.allclose(q_grid[qx, qy, qz], 0): the grid values are 2 pi fftfreq / 1,
\* at least 2 pi / n in magnitude unless zero
IsZeroWavevector(n, q) == \A c \in 1..3 : fftfreq(n, q[c]) = 0

\* the partial sum of one worker (numerator over the script's denominator)
compute_elastic_energy(n, B, strain_ft, rank, size) ==
    SumN(n * n * n, LAMBDA f :
        LET q == SiteOf(n, f)
        IN  IF q[1] \in Slab(n, rank, size) /\ ~IsZeroWavevector(n, q)
            THEN Contraction(strain_ft[q], B[q])
            ELSE 0)


(***************************************************************************)
(* Run parameters.  The scripts fix them in main(); the model keeps the    *)
(* material constants and scales the sizes down.                           *)
(***************************************************************************)
\* lattice_size (16 or 12 in the scripts); the model's side must divide 4
N == 2

anisoPar == 1

\* gamma_0 = 0.4 and epsilon_a = 0.1 or 0.0, in tenths
gamma_0 == 4

max_exp_arg == 700

\* the sweep budget and the stagnation/stabilisation window
num_steps == 3

max_stable_steps == 2

\* number of temperature stages of sporc_mpi6.py (np.linspace(1.0, 0.1, 10))
NumTemps == 2

\* worker counts 1..MaxSize
MaxSize == 3

\* the energy evaluator is also run alone, on grids of side 1..MaxGrid
MaxGrid == 2

\* proposals fall on the sites of flat index 0..MaxSite
MaxSite == 1

\* uniform draws are u = exp(-d) for d in 1..MaxLevel, and u = 0.0
MaxLevel == 2

\* generator start states 0..MaxSeed
MaxSeed == 3

\* the generators of ranks r and r + 1 start 0..MaxSkew states apart
MaxSkew == 1

Scripts == {"sporc_mpi6", "mac1", "debug", "mac6", "mac5"}

\* mac6.py and mac5.py: rank 0 proposes and decides
Coordinated(s) == s \in {"mac6", "mac5"}

epsilon_a(s) == IF Coordinated(s) THEN 0 ELSE 1

stiffness_tensor == precompute_stiffness_tensor(anisoPar)

KernelIntermediate == precompute_reciprocal_space_and_kernel(N, stiffness_tensor, "intermediate")

KernelEinsum == precompute_reciprocal_space_and_kernel(N, stiffness_tensor, "einsum")

\* the B of a script's kernel builder
B(s) == IF Coordinated(s) THEN KernelIntermediate.B ELSE KernelEinsum.B

StrainsZero == define_dimensionless_strains(0, gamma_0)

StrainsTenth == define_dimensionless_strains(1, gamma_0)

\* epsilon_1, epsilon_2, epsilon_3 of a script
eps(s) == IF epsilon_a(s) = 0 THEN StrainsZero ELSE StrainsTenth

\* the temperature of a stage, in units of the script's energy numerator; the
\* stages of sporc_mpi6.py cool down
TemperatureOf(s, stage) ==
    IF Coordinated(s) THEN 524288
    ELSE IF stage <= 0 THEN 262144
    ELSE 196608

\* the draw u = 0.0
DrawZero == -1

\* the draw u = 1.0, which random.random() never returns: the generator
\* patched to return 1.0
DrawOne == 0

AllOnes == [x \in Sites(N) |-> 1]

Mixed == [AllOnes EXCEPT ![SiteOf(N, N * N * N - 1)] = 2]

\* what a name holds before it is assigned (None, or not yet defined)
None == <<>>

(***************************************************************************)
(* The random generators.  A worker's generators (np.random and random)    *)
(* are deterministic from their start state; unseeded, the start state     *)
(* differs from worker to worker.  StreamX(sd, i) is what a generator      *)
(* started in state sd gives to its i-th call of monte_carlo_step.         *)
(* Start state 0 is the patched generator whose random.random() is 1.0.    *)
(***************************************************************************)
Seeds == 0..MaxSeed

\* np.random.randint(0, N, size=3)
StreamSite(sd, i) == SiteOf(N, (sd + i) % (MaxSite + 1))

\* random.choice / np.random.choice among the two other spins: index 1 or 2
StreamChoice(sd, i) == 1 + (((i \div 2) * (sd \div 2)) % 2)

\* random.random(): recorded levels, repeated
DrawPatterns == << <<DrawOne>>, <<MaxLevel>>, <<1, MaxLevel, DrawZero>>, <<1>> >>

StreamDraw(sd, i) ==
    LET p == DrawPatterns[(sd % Len(DrawPatterns)) + 1]
    IN  p[((i + (sd \div Len(DrawPatterns))) % Len(p)) + 1]

\* np.random.choice([1, 2, 3], size=(N, N, N)) of a stage, or the spins file
StreamLattice(sd, stage) == IF (sd + stage) % 2 = 0 THEN AllOnes ELSE Mixed

(***************************************************************************)
(* State.  Every per-worker name of main() and of monte_carlo_step is a    *)
(* function of the rank.                                                   *)
(***************************************************************************)
VARIABLES
    script,            \* which of the five scripts runs
    size,              \* comm.Get_size()
    lattice_size,      \* the side of the grid
    temperature,
    temp_index,        \* stage of the temperature loop (sporc_mpi6.py)
    pc,                \* where each worker is
    lattice_spins,     \* main()'s array, per worker
    strain_field,
    strain_ft,
    current_energy,
    prev_energy,
    step,
    iter,              \* proposals this worker has finished in the sweep
    accepted_moves,
    zero_move_steps,
    stable_steps,
    terminate_flag,
    proposal,          \* x, y, z, current_spin, proposed_spin of the call
    strain_ft_new,
    local_E_new,
    E_new,
    accepted,
    saved,             \* the spin files written so far
    seed,              \* the start state of each worker's generators
    ndraw,             \* calls each worker's generators have served
    pre,               \* history: a worker's arrays when its call began
    decision_log,      \* history: each worker's decisions, in order
    h_resolved,        \* history: proposals resolved in this sweep, by all
    h_any_accepted,    \* history: some worker accepted in this sweep
    h_zero_run,        \* history: consecutive sweeps without any acceptance
    h_stable_run,      \* history: consecutive sweeps of stable energy
    params,            \* anisoPar, gamma_0 and the length of spins.txt
    error,             \* the exception that ended a worker's main(), or ""
    material,          \* epsilon_1..3 and stiffness_tensor, per worker
    dErel              \* the relative change rank 0 computed, as a class

vars == <<script, size, lattice_size, temperature, temp_index, pc, lattice_spins,
          strain_field, strain_ft, current_energy, prev_energy, step, iter,
          accepted_moves, zero_move_steps, stable_steps, terminate_flag,
          proposal, strain_ft_new, local_E_new, E_new, accepted, saved,
          seed, ndraw, pre, decision_log, h_resolved,
          h_any_accepted, h_zero_run, h_stable_run, params, error, material,
          dErel>>

\* what main() fixes before the first sweep
startup == <<params, error, material>>

config == <<script, size, lattice_size, temperature, seed, startup>>

locals == <<proposal, strain_ft_new, local_E_new, E_new, accepted>>

arrays == <<lattice_spins, strain_field, strain_ft>>

counters == <<step, zero_move_steps, stable_steps, terminate_flag, saved, dErel>>

sweep_history == <<h_resolved, h_any_accepted, h_zero_run, h_stable_run>>

Ranks == 0..(size - 1)

AllAt(label) == \A r \in Ranks : pc[r] = label

\* lattice_spins.size // size
SweepLength == (N * N * N) \div size

\* [s for s in [1, 2, 3] if s != current_spin]
\* a candidate list that still holds the current spin
OtherSpinsWithCurrent(current_spin) ==
    <<current_spin, (current_spin % 3) + 1>>

OtherSpins(current_spin) ==
    IF current_spin = 1 THEN <<2, 3>>
    ELSE IF current_spin = 2 THEN <<1, 3>>
    ELSE IF current_spin = 3 THEN <<1, 2>>
    ELSE <<1, 2, 3>>

\* comm.reduce(local, op=MPI.SUM, root=0) followed by comm.bcast(.., root=0)
ReduceSum(local) == SumN(size, LAMBDA r : local[r])

(***************************************************************************)
(* Metropolis rule.  The draw is u = exp(-d) (u = 0.0 for DrawZero), so    *)
(* u < exp(-c) is c < d.                                                   *)
(***************************************************************************)
\* prob = np.exp(np.clip(delta_E / temperature, None, max_exp_arg)): the minus
\* sign is lost, so prob >= 1 for every uphill proposal
MetropolisMinusLost(delta_E, T, d) ==
    IF delta_E > 0 THEN TRUE ELSE d # DrawOne

\* random.random() < prob
Metropolis(delta_E, T, d) ==
    IF delta_E > 0
    THEN \* prob = np.exp(-np.clip(delta_E / temperature, None, max_exp_arg))
         \/ d = DrawZero
         \/ delta_E < d * T
         \/ max_exp_arg < d
    ELSE \* prob = 1.0
         d # DrawOne

(***************************************************************************)
(* Construction: the communicator, the script and its parameters.          *)
(***************************************************************************)
\* what main() holds before its first assignment, for every worker
Blank ==
    /\ temp_index = -1
    /\ strain_ft = [r \in 0..(size - 1) |-> None]
    /\ current_energy = [r \in 0..(size - 1) |-> 0]
    /\ prev_energy = [r \in 0..(size - 1) |-> 0]
    /\ step = [r \in 0..(size - 1) |-> 0]
    /\ iter = [r \in 0..(size - 1) |-> 0]
    /\ accepted_moves = [r \in 0..(size - 1) |-> 0]
    /\ zero_move_steps = [r \in 0..(size - 1) |-> 0]
    /\ stable_steps = [r \in 0..(size - 1) |-> 0]
    /\ terminate_flag = [r \in 0..(size - 1) |-> FALSE]
    /\ proposal = [r \in 0..(size - 1) |-> None]
    /\ local_E_new = [r \in 0..(size - 1) |-> 0]
    /\ E_new = [r \in 0..(size - 1) |-> 0]
    /\ accepted = [r \in 0..(size - 1) |-> "None"]
    /\ dErel = [r \in 0..(size - 1) |-> "unset"]
    /\ ndraw = [r \in 0..(size - 1) |-> 0]
    /\ pre = [r \in 0..(size - 1) |-> None]
    /\ decision_log = [r \in 0..(size - 1) |-> <<>>]
    /\ h_resolved = 0
    /\ h_any_accepted = FALSE
    /\ h_zero_run = 0
    /\ h_stable_run = 0

\* the parameters main() fixes, in the model's units
ParamsOf(s) == [anisoPar |-> anisoPar, gamma_0 |-> gamma_0, file_len |-> N * N * N]

\* what a worker holds of the material model when the sweeps begin: in mac6.py
\* and mac5.py rank 0 alone builds the stiffness tensor, the strains are
\* broadcast
StartupMaterial(s, r) ==
    [eps |-> eps(s),
     C   |-> IF Coordinated(s) /\ r # 0 THEN None ELSE stiffness_tensor]

\* the output files main() has created when the first stage begins:
\* mac6.py 167-168 and mac5.py 173-174 open their logs first, debug.py
\* 163-168 saves the loaded lattice and its strain
StartupOutputs(s) ==
    IF Coordinated(s) THEN {<<-1, "totalE">>, <<-1, "macroStrain">>}
    ELSE IF s = "debug" THEN {<<-1, "spins1">>, <<-1, "strain1">>, <<-1, "strainft1">>}
    ELSE {}

\* the log a stage opens: sporc_mpi6.py 160 (one per temperature), mac1.py 162
StageLogs(s, stage) ==
    IF s = "sporc_mpi6" THEN {<<stage, "total_energy">>}
    ELSE IF s = "mac1" THEN {<<stage, "totalE">>}
    ELSE {}

Init ==
    /\ script \in Scripts
    /\ size \in 1..MaxSize
    /\ lattice_size = N
    /\ params = ParamsOf(script)
    /\ error = [r \in 0..(size - 1) |-> ""]
    /\ material = [r \in 0..(size - 1) |-> StartupMaterial(script, r)]
    /\ saved = StartupOutputs(script)
    /\ \E g \in Seeds, k \in 0..MaxSkew :
         \* rank 0 alone draws in mac6.py and mac5.py
         /\ (Coordinated(script) \/ size = 1) => k = 0
         /\ seed = [r \in 0..(size - 1) |-> (g + r * k) % (MaxSeed + 1)]
    /\ temperature = TemperatureOf(script, 0)
    /\ pc = [r \in 0..(size - 1) |-> "start"]
    /\ strain_ft_new = [r \in 0..(size - 1) |-> None]
    /\ lattice_spins = [r \in 0..(size - 1) |-> None]
    /\ strain_field = [r \in 0..(size - 1) |-> None]
    /\ Blank

(***************************************************************************)
(* Stage set-up: main() up to the first sweep.                             *)
(*   sporc_mpi6.py 150-168 (once per temperature), mac1.py 140-169,        *)
(*   debug.py 141-184, mac6.py 164-208, mac5.py 170-211.                   *)
(***************************************************************************)
\* the lattice a worker starts a stage from
StartLattice(r) ==
    \* mac6.py: np.random.choice([1, 1, 1], ...) on rank 0, then bcast
    IF script = "mac6" THEN AllOnes
    \* mac5.py: rank 0's lattice is broadcast; debug.py: all read spins.txt
    ELSE IF script \in {"mac5", "debug"} THEN StreamLattice(seed[0], 0)
    \* sporc_mpi6.py, mac1.py: every worker draws its own
    ELSE StreamLattice(seed[r], temp_index + 1)

\* a stage set-up that leaves the stop flag and the zero-move counter alone
StageInitKeepsFlag ==
    /\ AllAt("start")
    /\ \E lats \in {Force([r \in Ranks |-> StartLattice(r)])} :
       \E field \in {Force([r \in Ranks |->
                          compute_strain_field(N, lats[r], eps(script))])} :
       \E ft \in {Force([r \in Ranks |-> fftn(N, field[r])])} :
       \E local_energy \in {Force([r \in Ranks |->
                          compute_elastic_energy(N, B(script), ft[r], r, size)])} :
       \E energy \in {ReduceSum(local_energy)} :
           /\ lattice_spins' = lats
           \* mac6.py computes strain_field on rank 0 only and never sends it
           /\ strain_field' = [r \in Ranks |->
                                  IF script = "mac6" /\ r # 0 THEN None ELSE field[r]]
           /\ strain_ft' = ft
           /\ current_energy' = [r \in Ranks |-> energy]
           /\ prev_energy' = [r \in Ranks |-> energy]
    /\ temp_index' = temp_index + 1
    /\ temperature' = TemperatureOf(script, temp_index + 1)
    /\ step' = [r \in Ranks |-> 1]
    /\ iter' = [r \in Ranks |-> 0]
    /\ accepted_moves' = [r \in Ranks |-> 0]
    /\ stable_steps' = [r \in Ranks |-> 0]
    /\ h_resolved' = 0
    /\ h_any_accepted' = FALSE
    /\ h_zero_run' = 0
    /\ h_stable_run' = 0
    /\ saved' = saved \cup StageLogs(script, temp_index + 1)
    /\ dErel' = [r \in Ranks |-> "unset"]
    /\ pc' = [r \in Ranks |-> "propose"]
    /\ UNCHANGED <<terminate_flag, zero_move_steps, script, size, lattice_size,
                   seed, startup, locals, ndraw, pre,
                   decision_log>>

StageInit ==
    /\ AllAt("start")
    /\ \E lats \in {Force([r \in Ranks |-> StartLattice(r)])} :
       \E field \in {Force([r \in Ranks |->
                          compute_strain_field(N, lats[r], eps(script))])} :
       \E ft \in {Force([r \in Ranks |-> fftn(N, field[r])])} :
       \E local_energy \in {Force([r \in Ranks |->
                          compute_elastic_energy(N, B(script), ft[r], r, size)])} :
       \E energy \in {ReduceSum(local_energy)} :
           /\ lattice_spins' = lats
           \* mac6.py computes strain_field on rank 0 only and never sends it
           /\ strain_field' = [r \in Ranks |->
                                  IF script = "mac6" /\ r # 0 THEN None ELSE field[r]]
           /\ strain_ft' = ft
           /\ current_energy' = [r \in Ranks |-> energy]
           /\ prev_energy' = [r \in Ranks |-> energy]
    /\ temp_index' = temp_index + 1
    /\ temperature' = TemperatureOf(script, temp_index + 1)
    /\ step' = [r \in Ranks |-> 1]
    /\ iter' = [r \in Ranks |-> 0]
    /\ accepted_moves' = [r \in Ranks |-> 0]
    /\ zero_move_steps' = [r \in Ranks |-> 0]
    /\ stable_steps' = [r \in Ranks |-> 0]
    /\ terminate_flag' = [r \in Ranks |-> FALSE]
    /\ h_resolved' = 0
    /\ h_any_accepted' = FALSE
    /\ h_zero_run' = 0
    /\ h_stable_run' = 0
    /\ saved' = saved \cup StageLogs(script, temp_index + 1)
    /\ dErel' = [r \in Ranks |-> "unset"]
    /\ pc' = [r \in Ranks |-> "propose"]
    /\ UNCHANGED <<script, size, lattice_size, seed, startup, locals, ndraw, pre,
                   decision_log>>

(***************************************************************************)
(* monte_carlo_step, first part: the proposal and the worker's partial     *)
(* energy.                                                                 *)
(***************************************************************************)
Snapshot(r) ==
    [lattice_spins |-> lattice_spins[r], strain_field |-> strain_field[r],
     strain_ft |-> strain_ft[r], current_energy |-> current_energy[r]]

\* sporc_mpi6.py 104-112, mac1.py 103-111, debug.py 102-110: every worker
\* draws its own site and spin and changes its own lattice
ProposeParallel(r) ==
    /\ ~Coordinated(script)
    /\ pc[r] = "propose"
    /\ LET site == StreamSite(seed[r], ndraw[r])
           c    == StreamChoice(seed[r], ndraw[r])
           current_spin  == lattice_spins[r][site]
           proposed_spin == OtherSpins(current_spin)[c]
       IN  \E tentative \in {[lattice_spins[r] EXCEPT ![site] = proposed_spin]} :
           \E new_strain_field \in {compute_strain_field(N, tentative, eps(script))} :
           \E ft_new \in {fftn(N, new_strain_field)} :
           /\ proposal' = [proposal EXCEPT ![r] =
                  [site |-> site, current_spin |-> current_spin,
                   proposed_spin |-> proposed_spin]]
           /\ lattice_spins' = [lattice_spins EXCEPT ![r] = tentative]
           /\ strain_ft_new' = [strain_ft_new EXCEPT ![r] = ft_new]
           /\ local_E_new' = [local_E_new EXCEPT ![r] =
                  compute_elastic_energy(N, B(script), ft_new, r, size)]
    /\ pre' = [pre EXCEPT ![r] = Snapshot(r)]
    /\ ndraw' = [ndraw EXCEPT ![r] = @ + 1]
    /\ pc' = [pc EXCEPT ![r] = "reduce"]
    /\ UNCHANGED <<config, temp_index, strain_field, strain_ft, current_energy,
                   prev_energy, iter, accepted_moves, counters, E_new, accepted,
                   decision_log, sweep_history>>

\* mac6.py 103-113: rank 0 flips the site, recomputes the strain field,
\* flips the site back and transforms
ProposeMac6 ==
    /\ script = "mac6"
    /\ pc[0] = "propose"
    /\ LET site == StreamSite(seed[0], ndraw[0])
           c    == StreamChoice(seed[0], ndraw[0])
           current_spin  == lattice_spins[0][site]
           proposed_spin == OtherSpins(current_spin)[c]
       IN  \E tentative \in {[lattice_spins[0] EXCEPT ![site] = proposed_spin]} :
           \E strain_field_new \in {compute_strain_field(N, tentative, eps(script))} :
           /\ proposal' = [proposal EXCEPT ![0] =
                  [site |-> site, current_spin |-> current_spin,
                   proposed_spin |-> proposed_spin]]
           /\ strain_ft_new' = [strain_ft_new EXCEPT ![0] = fftn(N, strain_field_new)]
    /\ pre' = [pre EXCEPT ![0] = Snapshot(0)]
    /\ ndraw' = [ndraw EXCEPT ![0] = @ + 1]
    /\ pc' = [pc EXCEPT ![0] = "bcast_ft"]
    /\ UNCHANGED <<config, temp_index, arrays, current_energy, prev_energy, iter,
                   accepted_moves, counters, local_E_new, E_new, accepted,
                   decision_log, sweep_history>>

\* mac5.py 103-117: strain_field_new = strain_field names the same array, so
\* the assignment to strain_field_new[x, y, z] writes main()'s strain_field
ProposeMac5 ==
    /\ script = "mac5"
    /\ pc[0] = "propose"
    /\ LET site == StreamSite(seed[0], ndraw[0])
           c    == StreamChoice(seed[0], ndraw[0])
           current_spin  == lattice_spins[0][site]
           proposed_spin == OtherSpins(current_spin)[c]
       IN  \E strain_field_new \in
                  {[strain_field[0] EXCEPT ![site] = eps(script)[proposed_spin]]} :
           /\ proposal' = [proposal EXCEPT ![0] =
                  [site |-> site, current_spin |-> current_spin,
                   proposed_spin |-> proposed_spin]]
           /\ strain_field' = [strain_field EXCEPT ![0] = strain_field_new]
           /\ strain_ft_new' = [strain_ft_new EXCEPT ![0] = fftn(N, strain_field_new)]
    /\ pre' = [pre EXCEPT ![0] = Snapshot(0)]
    /\ ndraw' = [ndraw EXCEPT ![0] = @ + 1]
    /\ pc' = [pc EXCEPT ![0] = "bcast_ft"]
    /\ UNCHANGED <<config, temp_index, lattice_spins, strain_ft, current_energy,
                   prev_energy, iter, accepted_moves, counters, local_E_new, E_new,
                   accepted, decision_log, sweep_history>>

\* mac6.py 115-117, mac5.py 118-120: the other ranks bring None to the bcast
ProposeIdle(r) ==
    /\ Coordinated(script)
    /\ r # 0
    /\ pc[r] = "propose"
    /\ strain_ft_new' = [strain_ft_new EXCEPT ![r] = None]
    /\ pre' = [pre EXCEPT ![r] = Snapshot(r)]
    /\ pc' = [pc EXCEPT ![r] = "bcast_ft"]
    /\ UNCHANGED <<config, temp_index, arrays, current_energy, prev_energy, iter,
                   accepted_moves, counters, proposal, local_E_new, E_new, accepted,
                   ndraw, decision_log, sweep_history>>

\* mac6.py 118-122, mac5.py 123-127: comm.bcast(strain_ft_new, root=0), then
\* every worker's partial energy of the received spectrum
BcastStrainFt ==
    /\ Coordinated(script)
    /\ AllAt("bcast_ft")
    /\ strain_ft_new' = [r \in Ranks |-> strain_ft_new[0]]
    /\ local_E_new' = [r \in Ranks |->
           compute_elastic_energy(N, B(script), strain_ft_new[0], r, size)]
    /\ pc' = [r \in Ranks |-> "reduce"]
    /\ UNCHANGED <<config, temp_index, arrays, current_energy, prev_energy, iter,
                   accepted_moves, counters, proposal, E_new, accepted, ndraw, pre,
                   decision_log, sweep_history>>

\* E_new = comm.reduce(local_E_new, op=MPI.SUM, root=0); E_new = comm.bcast(E_new)
ReduceEnergy ==
    /\ AllAt("reduce")
    /\ E_new' = [r \in Ranks |-> ReduceSum(local_E_new)]
    /\ pc' = [r \in Ranks |-> "decide"]
    /\ UNCHANGED <<config, temp_index, arrays, current_energy, prev_energy, iter,
                   accepted_moves, counters, proposal, strain_ft_new, local_E_new,
                   accepted, ndraw, pre, decision_log, sweep_history>>

(***************************************************************************)
(* monte_carlo_step, second part: the decision.                            *)
(***************************************************************************)
Truth(b) == IF b THEN "True" ELSE "False"

\* a decision that leaves the tentative spin in place on rejection
DecideParallelNoRevert(r) ==
    /\ ~Coordinated(script)
    /\ pc[r] = "decide"
    /\ LET d == StreamDraw(seed[r], ndraw[r] - 1)
           delta_E == E_new[r] - current_energy[r]
           ok      == Metropolis(delta_E, temperature, d)
       IN  /\ IF ok
              THEN /\ strain_ft' = [strain_ft EXCEPT ![r] = strain_ft_new[r]]
                   /\ current_energy' = [current_energy EXCEPT ![r] = E_new[r]]
                   /\ UNCHANGED lattice_spins
              ELSE UNCHANGED <<lattice_spins, strain_ft, current_energy>>
           /\ accepted' = [accepted EXCEPT ![r] = Truth(ok)]
           /\ h_any_accepted' = (h_any_accepted \/ ok)
           /\ decision_log' = [decision_log EXCEPT ![r] = Append(@, ok)]
    /\ h_resolved' = h_resolved + 1
    /\ pc' = [pc EXCEPT ![r] = "returned"]
    /\ UNCHANGED <<config, temp_index, strain_field, prev_energy, iter,
                   accepted_moves, counters, proposal, strain_ft_new, local_E_new,
                   E_new, ndraw, pre, h_zero_run, h_stable_run>>

\* sporc_mpi6.py 119-135, mac1.py 118-134, debug.py 117-133: every worker
\* draws its own random.random() and accepts or reverts its own proposal
DecideParallel(r) ==
    /\ ~Coordinated(script)
    /\ pc[r] = "decide"
    /\ LET d == StreamDraw(seed[r], ndraw[r] - 1)
           delta_E == E_new[r] - current_energy[r]
           ok      == Metropolis(delta_E, temperature, d)
       IN  /\ IF ok
              THEN /\ strain_ft' = [strain_ft EXCEPT ![r] = strain_ft_new[r]]
                   /\ current_energy' = [current_energy EXCEPT ![r] = E_new[r]]
                   /\ UNCHANGED lattice_spins
              ELSE /\ lattice_spins' = [lattice_spins EXCEPT
                           ![r][proposal[r].site] = proposal[r].current_spin]
                   /\ UNCHANGED <<strain_ft, current_energy>>
           /\ accepted' = [accepted EXCEPT ![r] = Truth(ok)]
           /\ h_any_accepted' = (h_any_accepted \/ ok)
           /\ decision_log' = [decision_log EXCEPT ![r] = Append(@, ok)]
    /\ h_resolved' = h_resolved + 1
    /\ pc' = [pc EXCEPT ![r] = "returned"]
    /\ UNCHANGED <<config, temp_index, strain_field, prev_energy, iter,
                   accepted_moves, counters, proposal, strain_ft_new, local_E_new,
                   E_new, ndraw, pre, h_zero_run, h_stable_run>>

\* mac6.py 128-144, mac5.py 133-150: rank 0 decides
DecideCoordinator ==
    /\ Coordinated(script)
    /\ pc[0] = "decide"
    /\ LET d == StreamDraw(seed[0], ndraw[0] - 1)
           delta_E == E_new[0] - current_energy[0]
           ok      == Metropolis(delta_E, temperature, d)
       IN  /\ IF ok
              THEN /\ lattice_spins' = [lattice_spins EXCEPT
                           ![0][proposal[0].site] = proposal[0].proposed_spin]
                   /\ current_energy' = [current_energy EXCEPT ![0] = E_new[0]]
              ELSE UNCHANGED <<lattice_spins, current_energy>>
           /\ accepted' = [accepted EXCEPT ![0] = Truth(ok)]
           /\ h_any_accepted' = (h_any_accepted \/ ok)
           /\ decision_log' = [decision_log EXCEPT ![0] = Append(@, ok)]
    /\ h_resolved' = h_resolved + 1
    /\ pc' = [pc EXCEPT ![0] = "bcast_acc"]
    /\ UNCHANGED <<config, temp_index, strain_field, strain_ft, prev_energy, iter,
                   accepted_moves, counters, proposal, strain_ft_new, local_E_new,
                   E_new, ndraw, pre, h_zero_run, h_stable_run>>

\* mac6.py 145-146, mac5.py 151-152: accepted = None on the other ranks
DecideIdle(r) ==
    /\ Coordinated(script)
    /\ r # 0
    /\ pc[r] = "decide"
    /\ accepted' = [accepted EXCEPT ![r] = "None"]
    /\ pc' = [pc EXCEPT ![r] = "bcast_acc"]
    /\ UNCHANGED <<config, temp_index, arrays, current_energy, prev_energy, iter,
                   accepted_moves, counters, proposal, strain_ft_new, local_E_new,
                   E_new, ndraw, pre, decision_log, sweep_history>>

\* mac6.py 148-153, mac5.py 155-159: the broadcasts of lattice_spins (and of
\* macro_strain or strain_field) bind names local to monte_carlo_step, so
\* main()'s arrays of the other ranks stay as they are; accepted is returned,
\* current_energy is returned as each rank holds it
BcastAccepted ==
    /\ Coordinated(script)
    /\ AllAt("bcast_acc")
    /\ accepted' = [r \in Ranks |-> accepted[0]]
    /\ pc' = [r \in Ranks |-> "returned"]
    /\ UNCHANGED <<config, temp_index, arrays, current_energy, prev_energy, iter,
                   accepted_moves, counters, proposal, strain_ft_new, local_E_new,
                   E_new, ndraw, pre, decision_log, sweep_history>>

\* back in main(): "if accepted: accepted_moves += 1" and the loop test
\* (sporc_mpi6.py 169-172, mac1.py 171-172, debug.py 186-189, mac6.py 210-214,
\* mac5.py 213-217)
CountMove(r) ==
    /\ pc[r] = "returned"
    /\ accepted_moves' = [accepted_moves EXCEPT ![r] =
           IF accepted[r] = "True" THEN @ + 1 ELSE @]
    /\ iter' = [iter EXCEPT ![r] = @ + 1]
    /\ proposal' = [proposal EXCEPT ![r] = None]
    /\ strain_ft_new' = [strain_ft_new EXCEPT ![r] = None]
    /\ local_E_new' = [local_E_new EXCEPT ![r] = 0]
    /\ E_new' = [E_new EXCEPT ![r] = 0]
    /\ accepted' = [accepted EXCEPT ![r] = "None"]
    /\ pre' = [pre EXCEPT ![r] = None]
    /\ pc' = [pc EXCEPT ![r] = IF iter[r] + 1 >= SweepLength THEN "sweep_end" ELSE "propose"]
    /\ UNCHANGED <<config, temp_index, arrays, current_energy, prev_energy,
                   counters, ndraw, decision_log, sweep_history>>

(***************************************************************************)
(* End of a sweep: the termination policy of rank 0.                       *)
(***************************************************************************)
\* dErel_tolerance = 1e-10 is 1 / (TolRoot * TolRoot)
TolRoot == 100000

\* abs(current_energy - prev_energy) / prev_energy < dErel_tolerance, on
\* numpy floats: a zero prev_energy gives inf or nan (the test is false), a
\* negative one a quotient that is not positive (the test is true)
RelChangeBelowTol(cur, prev) ==
    IF prev = 0 THEN FALSE
    ELSE IF prev < 0 THEN TRUE
    ELSE Abs(cur - prev) <= ((prev - 1) \div TolRoot) \div TolRoot

\* the value of dErel, as a class.  mac6.py 222-225 tests prev_energy == 0
\* first; the other scripts divide numpy floats, and a zero prev_energy
\* gives nan (0/0) or inf with a RuntimeWarning, not an exception
dErelOf(s, cur, prev) ==
    IF prev = 0
    THEN IF s = "mac6" THEN "0" ELSE IF cur = 0 THEN "nan" ELSE "inf"
    ELSE IF cur = prev THEN "0" ELSE "finite"

\* which scripts count stable sweeps (sporc_mpi6.py 177-182, debug.py 194-199)
CountsStable(s) == s \in {"sporc_mpi6", "debug"}

\* which scripts write final_spins when the flag is set
SavesFinal(s) == s \in {"sporc_mpi6", "mac1", "mac6", "mac5"}

\* sporc_mpi6.py 174-194, mac1.py 181-203, debug.py 191-219, mac6.py 216-238,
\* mac5.py 219-239
SweepEndRoot ==
    /\ pc[0] = "sweep_end"
    /\ LET stable == IF ~CountsStable(script) THEN stable_steps[0]
                     ELSE IF RelChangeBelowTol(current_energy[0], prev_energy[0])
                          THEN stable_steps[0] + 1 ELSE 0
           zero   == IF accepted_moves[0] <= 0 THEN zero_move_steps[0] + 1 ELSE 0
           stop   == \/ CountsStable(script) /\ stable >= max_stable_steps
                     \/ zero >= max_stable_steps
       IN  /\ stable_steps' = [stable_steps EXCEPT ![0] = stable]
           /\ zero_move_steps' = [zero_move_steps EXCEPT ![0] = zero]
           /\ terminate_flag' = [terminate_flag EXCEPT ![0] = (@ \/ stop)]
           /\ saved' = IF stop /\ SavesFinal(script)
                       THEN saved \cup {<<temp_index, "final_spins">>} ELSE saved
    /\ dErel' = [dErel EXCEPT ![0] = dErelOf(script, current_energy[0], prev_energy[0])]
    /\ h_stable_run' = IF RelChangeBelowTol(current_energy[0], prev_energy[0])
                       THEN h_stable_run + 1 ELSE 0
    /\ pc' = [pc EXCEPT ![0] = "bcast_term"]
    /\ UNCHANGED <<config, temp_index, arrays, current_energy, prev_energy, step,
                   iter, accepted_moves, locals, ndraw, pre, decision_log,
                   h_resolved, h_any_accepted, h_zero_run>>

\* "if rank == 0:" is false: straight to the broadcast
SweepEndOther(r) ==
    /\ r # 0
    /\ pc[r] = "sweep_end"
    /\ pc' = [pc EXCEPT ![r] = "bcast_term"]
    /\ UNCHANGED <<config, temp_index, arrays, current_energy, prev_energy, iter,
                   accepted_moves, counters, locals, ndraw, pre, decision_log,
                   sweep_history>>

\* the broadcast of terminate_flag left out: every rank tests its own flag
BcastTerminateOwnFlag ==
    /\ AllAt("bcast_term")
    /\ h_zero_run' = IF h_any_accepted THEN 0 ELSE h_zero_run + 1
    /\ LET leaves(r) == terminate_flag[r] \/ step[r] >= num_steps
       IN  /\ pc' = [r \in Ranks |-> IF leaves(r) THEN "after_loop" ELSE "propose"]
           /\ step' = [r \in Ranks |-> IF leaves(r) THEN step[r] ELSE step[r] + 1]
           /\ iter' = [r \in Ranks |-> IF leaves(r) THEN iter[r] ELSE 0]
           /\ accepted_moves' = [r \in Ranks |->
                  IF leaves(r) THEN accepted_moves[r] ELSE 0]
           /\ prev_energy' = [r \in Ranks |->
                  IF leaves(r) THEN prev_energy[r] ELSE current_energy[r]]
    /\ h_resolved' = 0
    /\ h_any_accepted' = FALSE
    /\ UNCHANGED <<config, temp_index, arrays, current_energy, zero_move_steps,
                   stable_steps, terminate_flag, saved, dErel, locals, ndraw, pre,
                   decision_log, h_stable_run>>

\* the sweep loop as range(1, num_steps + 2): one sweep more than the budget
BcastTerminateExtraSweep ==
    /\ AllAt("bcast_term")
    /\ terminate_flag' = [r \in Ranks |-> terminate_flag[0]]
    /\ h_zero_run' = IF h_any_accepted THEN 0 ELSE h_zero_run + 1
    /\ IF terminate_flag[0] \/ step[0] >= num_steps + 1
       THEN /\ pc' = [r \in Ranks |-> "after_loop"]
            /\ UNCHANGED <<step, iter, accepted_moves, prev_energy, h_resolved,
                           h_any_accepted>>
       ELSE /\ pc' = [r \in Ranks |-> "propose"]
            /\ step' = [r \in Ranks |-> step[r] + 1]
            /\ iter' = [r \in Ranks |-> 0]
            /\ accepted_moves' = [r \in Ranks |-> 0]
            /\ prev_energy' = current_energy
            /\ h_resolved' = 0
            /\ h_any_accepted' = FALSE
    /\ UNCHANGED <<config, temp_index, arrays, current_energy, zero_move_steps,
                   stable_steps, saved, dErel, locals, ndraw, pre, decision_log,
                   h_stable_run>>

\* terminate_flag = comm.bcast(terminate_flag, root=0); break, or the next
\* sweep (accepted_moves = 0; prev_energy = current_energy)
BcastTerminate ==
    /\ AllAt("bcast_term")
    /\ terminate_flag' = [r \in Ranks |-> terminate_flag[0]]
    /\ h_zero_run' = IF h_any_accepted THEN 0 ELSE h_zero_run + 1
    /\ IF terminate_flag[0] \/ step[0] >= num_steps
       THEN /\ pc' = [r \in Ranks |-> "after_loop"]
            /\ UNCHANGED <<step, iter, accepted_moves, prev_energy, h_resolved,
                           h_any_accepted>>
       ELSE /\ pc' = [r \in Ranks |-> "propose"]
            /\ step' = [r \in Ranks |-> step[r] + 1]
            /\ iter' = [r \in Ranks |-> 0]
            /\ accepted_moves' = [r \in Ranks |-> 0]
            /\ prev_energy' = current_energy
            /\ h_resolved' = 0
            /\ h_any_accepted' = FALSE
    /\ UNCHANGED <<config, temp_index, arrays, current_energy, zero_move_steps,
                   stable_steps, saved, dErel, locals, ndraw, pre, decision_log,
                   h_stable_run>>

\* after the sweep loop: sporc_mpi6.py 200-204 (then the next temperature),
\* mac1.py 211-213, debug.py 227-228, mac6.py 245-246, mac5.py 246-247
AfterLoop(r) ==
    /\ pc[r] = "after_loop"
    /\ saved' = IF r # 0 THEN saved
                ELSE IF Coordinated(script)
                     THEN saved \cup {<<temp_index, "maxStep_spins">>}
                ELSE IF script \in {"sporc_mpi6", "mac1"} /\ ~terminate_flag[0]
                     THEN saved \cup {<<temp_index, "maxStep_spins">>}
                ELSE saved
    /\ pc' = [pc EXCEPT ![r] =
           IF script = "sporc_mpi6" /\ temp_index + 1 < NumTemps
           THEN "start" ELSE "done"]
    /\ UNCHANGED <<config, temp_index, arrays, current_energy, prev_energy, step,
                   iter, accepted_moves, zero_move_steps, stable_steps,
                   terminate_flag, dErel, locals, ndraw, pre, decision_log,
                   sweep_history>>

Next ==
    \/ StageInit
    \/ \E r \in Ranks : ProposeParallel(r)
    \/ ProposeMac6
    \/ ProposeMac5
    \/ \E r \in Ranks : ProposeIdle(r)
    \/ BcastStrainFt
    \/ ReduceEnergy
    \/ \E r \in Ranks : DecideParallel(r)
    \/ DecideCoordinator
    \/ \E r \in Ranks : DecideIdle(r)
    \/ BcastAccepted
    \/ \E r \in Ranks : CountMove(r)
    \/ SweepEndRoot
    \/ \E r \in Ranks : SweepEndOther(r)
    \/ BcastTerminate
    \/ \E r \in Ranks : AfterLoop(r)

Spec == Init /\ [][Next]_vars

\* worker counts 1..MaxFairSize of the runs checked for termination
MaxFairSize == 2

InitFair == Init /\ size <= MaxFairSize

\* every worker is a running process: a step that can be taken is taken
SpecFair == InitFair /\ [][Next]_vars /\ WF_vars(Next)

(***************************************************************************)
(* The energy evaluator alone: every worker's partial sum of one spectrum, *)
(* then the reduce, on a grid of any side and for any worker count.        *)
(***************************************************************************)
KernelTable ==
    Force([n \in 1..MaxGrid |-> [builder \in {"intermediate", "einsum"} |->
        precompute_reciprocal_space_and_kernel(n, stiffness_tensor, builder).B]])

\* the B of a script's kernel builder on the grid of side n
KernelFor(n, s) ==
    LET builder == IF Coordinated(s) THEN "intermediate" ELSE "einsum"
    IN  IF n \in DOMAIN KernelTable THEN KernelTable[n][builder]
        ELSE precompute_reciprocal_space_and_kernel(n, stiffness_tensor, builder).B

\* a spectrum that is nonzero at the grid point q0 only
UnitSpectrum(n, q0) ==
    [q \in Sites(n) |-> [i \in Idx |-> [j \in Idx |->
        IF q = q0 /\ i = j THEN <<2, 1>> ELSE <<0, 0>>]]]

\* a lattice whose every site holds the spin state sp
Uniform(n, sp) == [x \in Sites(n) |-> sp]

\* the side of the reference lattice of the uniform-state check
ReferenceSide == 4

\* the evaluator's inputs on the grid of side n: a spectrum alone, or a
\* uniform lattice with its strain field and the transform of the field
\* (sporc_mpi6.py 152-153, mac6.py 181-185); the transform needs a side that
\* divides 4, and beyond MaxGrid the kernel is not tabulated
EvaluatorInputs(n, s) ==
    (IF n \in 1..MaxGrid
     THEN {[lattice |-> None, field |-> None, spectrum |-> UnitSpectrum(n, q0)] :
               q0 \in Sites(n)}
     ELSE {})
    \cup
    (IF 4 % n = 0
     THEN {[lattice  |-> Uniform(n, sp),
            field    |-> compute_strain_field(n, Uniform(n, sp), eps(s)),
            spectrum |-> fftn(n, compute_strain_field(n, Uniform(n, sp), eps(s)))] :
               sp \in 1..3}
     ELSE {})

InitEvaluator ==
    /\ script \in Scripts
    /\ size \in 1..MaxSize
    /\ lattice_size \in (1..MaxGrid) \cup {ReferenceSide}
    /\ seed = [r \in 0..(size - 1) |-> 0]
    /\ temperature = TemperatureOf(script, 0)
    /\ pc = [r \in 0..(size - 1) |-> "energy"]
    /\ \E input \in EvaluatorInputs(lattice_size, script) :
         /\ lattice_spins = [r \in 0..(size - 1) |-> input.lattice]
         /\ strain_field = [r \in 0..(size - 1) |-> input.field]
         /\ strain_ft_new = [r \in 0..(size - 1) |-> input.spectrum]
    /\ params = ParamsOf(script)
    /\ error = [r \in 0..(size - 1) |-> ""]
    /\ material = [r \in 0..(size - 1) |-> StartupMaterial(script, r)]
    /\ saved = StartupOutputs(script)
    /\ Blank

\* local_E_new = compute_elastic_energy(lattice_spins, q_grid, B, strain_ft_new,
\* rank, size) (sporc_mpi6.py 112, mac6.py 122)
EvaluatePartial(r) ==
    /\ pc[r] = "energy"
    /\ local_E_new' = [local_E_new EXCEPT ![r] =
           compute_elastic_energy(lattice_size, KernelFor(lattice_size, script),
                                  strain_ft_new[r], r, size)]
    /\ pc' = [pc EXCEPT ![r] = "reduce"]
    /\ UNCHANGED <<config, temp_index, arrays, current_energy, prev_energy, iter,
                   accepted_moves, counters, proposal, strain_ft_new, E_new,
                   accepted, ndraw, pre, decision_log, sweep_history>>

NextEvaluator ==
    \/ \E r \in Ranks : EvaluatePartial(r)
    \/ ReduceEnergy

SpecEvaluator == InitEvaluator /\ [][NextEvaluator]_vars

(***************************************************************************)
(* The end of a sweep alone: rank 0's termination policy and the broadcast *)
(* of the flag, for any pair of energies at the sweep's two ends, any      *)
(* count of accepted moves and any sweep of the budget.                    *)
(***************************************************************************)
\* energies in -MaxEnergy..MaxEnergy
MaxEnergy == 2

InitPolicy ==
    /\ script \in Scripts
    /\ size \in 1..MaxSize
    /\ lattice_size = N
    /\ params = ParamsOf(script)
    /\ error = [r \in 0..(size - 1) |-> ""]
    /\ material = [r \in 0..(size - 1) |-> StartupMaterial(script, r)]
    /\ seed = [r \in 0..(size - 1) |-> 0]
    /\ temperature = TemperatureOf(script, 0)
    /\ temp_index = 0
    /\ saved = StartupOutputs(script) \cup StageLogs(script, 0)
    /\ pc = [r \in 0..(size - 1) |-> "sweep_end"]
    /\ lattice_spins = [r \in 0..(size - 1) |-> AllOnes]
    /\ strain_field = [r \in 0..(size - 1) |->
           IF script = "mac6" /\ r # 0 THEN None
           ELSE compute_strain_field(N, AllOnes, eps(script))]
    /\ strain_ft = [r \in 0..(size - 1) |->
           fftn(N, compute_strain_field(N, AllOnes, eps(script)))]
    /\ \E cur \in (-MaxEnergy)..MaxEnergy, prev \in (-MaxEnergy)..MaxEnergy :
         /\ current_energy = [r \in 0..(size - 1) |-> cur]
         /\ prev_energy = [r \in 0..(size - 1) |-> prev]
    /\ \E moves \in 0..1 :
         /\ accepted_moves = [r \in 0..(size - 1) |-> moves]
         /\ h_any_accepted = (moves > 0)
    /\ \E s \in 1..num_steps : step = [r \in 0..(size - 1) |-> s]
    /\ iter = [r \in 0..(size - 1) |-> (N * N * N) \div size]
    /\ zero_move_steps = [r \in 0..(size - 1) |-> 0]
    /\ stable_steps = [r \in 0..(size - 1) |-> 0]
    /\ terminate_flag = [r \in 0..(size - 1) |-> FALSE]
    /\ proposal = [r \in 0..(size - 1) |-> None]
    /\ strain_ft_new = [r \in 0..(size - 1) |-> None]
    /\ local_E_new = [r \in 0..(size - 1) |-> 0]
    /\ E_new = [r \in 0..(size - 1) |-> 0]
    /\ accepted = [r \in 0..(size - 1) |-> "None"]
    /\ dErel = [r \in 0..(size - 1) |-> "unset"]
    /\ ndraw = [r \in 0..(size - 1) |-> 0]
    /\ pre = [r \in 0..(size - 1) |-> None]
    /\ decision_log = [r \in 0..(size - 1) |-> <<>>]
    /\ h_resolved = N * N * N
    /\ h_zero_run = 0
    /\ h_stable_run = 0

NextPolicy ==
    \/ SweepEndRoot
    \/ \E r \in Ranks : SweepEndOther(r)
    \/ BcastTerminate

SpecPolicy == InitPolicy /\ [][NextPolicy]_vars

(***************************************************************************)
(* Start-up: main() from its first line to the first stage, step by step   *)
(* and for any anisotropy, reference shear and spins.txt.  A division by   *)
(* zero of Python numbers raises ZeroDivisionError and ends main(); the    *)
(* reshape of debug.py raises ValueError, which main() catches to return.  *)
(***************************************************************************)
\* anisoPar in -MaxAniso..MaxAniso
MaxAniso == 2

\* gamma_0 in 0..MaxGamma tenths
MaxGamma == 4

\* spins.txt holds N^3 values, or up to MaxFileSkew fewer or more
MaxFileSkew == 1

\* where main() begins: mac6.py 164-168 and mac5.py 170-174 open their logs,
\* debug.py 141-148 loads spins.txt, sporc_mpi6.py 146 and mac1.py 148 build
\* the material model
EntryLabel(s) ==
    IF Coordinated(s) THEN "open_logs"
    ELSE IF s = "debug" THEN "load_spins"
    ELSE "material"

InitStartup ==
    /\ script \in Scripts
    /\ size \in 1..MaxSize
    /\ lattice_size = N
    /\ \E a \in (-MaxAniso)..MaxAniso, g \in 0..MaxGamma,
          k \in (N * N * N - MaxFileSkew)..(N * N * N + MaxFileSkew) :
         \* debug.py alone reads a file
         /\ script # "debug" => k = N * N * N
         /\ params = [anisoPar |-> a, gamma_0 |-> g, file_len |-> k]
    /\ seed = [r \in 0..(size - 1) |-> 0]
    /\ temperature = TemperatureOf(script, 0)
    /\ pc = [r \in 0..(size - 1) |-> EntryLabel(script)]
    /\ strain_ft_new = [r \in 0..(size - 1) |-> None]
    /\ error = [r \in 0..(size - 1) |-> ""]
    /\ material = [r \in 0..(size - 1) |-> [eps |-> None, C |-> None]]
    /\ saved = {}
    /\ lattice_spins = [r \in 0..(size - 1) |-> None]
    /\ strain_field = [r \in 0..(size - 1) |-> None]
    /\ Blank

\* np.loadtxt("spins.txt", dtype=int) without the reshape: any file passes
LoadSpinsNoReshape(r) ==
    /\ script = "debug"
    /\ pc[r] = "load_spins"
    /\ pc' = [pc EXCEPT ![r] = "material"]
    /\ UNCHANGED <<script, size, lattice_size, temperature, seed, params, error,
                   material, temp_index, arrays, current_energy, prev_energy, iter,
                   accepted_moves, counters, locals, ndraw, pre, decision_log,
                   sweep_history>>

\* debug.py 141-148: np.loadtxt(...).reshape((N, N, N)) raises ValueError
\* unless the file holds N^3 values; main() prints and returns
LoadSpins(r) ==
    /\ script = "debug"
    /\ pc[r] = "load_spins"
    /\ IF params.file_len = lattice_size * lattice_size * lattice_size
       THEN /\ pc' = [pc EXCEPT ![r] = "material"]
            /\ UNCHANGED error
       ELSE /\ pc' = [pc EXCEPT ![r] = "stopped"]
            /\ error' = [error EXCEPT ![r] = "ValueError"]
    /\ UNCHANGED <<script, size, lattice_size, temperature, seed, params,
                   material, temp_index, arrays, current_energy, prev_energy, iter,
                   accepted_moves, counters, locals, ndraw, pre, decision_log,
                   sweep_history>>

\* mac6.py 167-168, mac5.py 173-174: every rank opens totalE.txt and
\* macroStrain.txt for writing; then the lattice broadcast (mac6.py 171-175),
\* after which rank 0 builds and the others wait for what it broadcasts
OpenLogs(r) ==
    /\ Coordinated(script)
    /\ pc[r] = "open_logs"
    /\ saved' = saved \cup {<<-1, "totalE">>, <<-1, "macroStrain">>}
    /\ pc' = [pc EXCEPT ![r] = IF r = 0 THEN "material" ELSE "bcast_setup"]
    /\ UNCHANGED <<config, temp_index, arrays, current_energy, prev_energy, iter,
                   accepted_moves, step, zero_move_steps, stable_steps,
                   terminate_flag, dErel, locals, ndraw, pre, decision_log,
                   sweep_history>>

\* define_dimensionless_strains(epsilon_a, gamma_0), then
\* precompute_stiffness_tensor(anisoPar): factor = epsilon_a / gamma_0 and
\* C11 = 4 / anisoPar are the divisions that can raise
BuildMaterial(r) ==
    /\ pc[r] = "material"
    /\ IF params.gamma_0 = 0
       THEN /\ error' = [error EXCEPT ![r] = "ZeroDivisionError"]
            /\ pc' = [pc EXCEPT ![r] = "raised"]
            /\ UNCHANGED material
       ELSE LET strains == define_dimensionless_strains(epsilon_a(script), params.gamma_0)
            IN  IF params.anisoPar = 0
                THEN /\ error' = [error EXCEPT ![r] = "ZeroDivisionError"]
                     /\ pc' = [pc EXCEPT ![r] = "raised"]
                     /\ material' = [material EXCEPT ![r] = [eps |-> strains, C |-> None]]
                ELSE /\ material' = [material EXCEPT ![r] =
                            [eps |-> strains,
                             C   |-> precompute_stiffness_tensor(params.anisoPar)]]
                     /\ pc' = [pc EXCEPT ![r] = "kernel"]
                     /\ UNCHANGED error
    /\ UNCHANGED <<script, size, lattice_size, temperature, seed, params,
                   temp_index, arrays, current_energy, prev_energy, iter,
                   accepted_moves, counters, locals, ndraw, pre, decision_log,
                   sweep_history>>

\* q_grid, B = precompute_reciprocal_space_and_kernel(lattice_size,
\* stiffness_tensor): a singular acoustic tensor gives G = 0, nothing raises
BuildKernel(r) ==
    /\ pc[r] = "kernel"
    /\ pc' = [pc EXCEPT ![r] =
           IF Coordinated(script) THEN "bcast_setup"
           ELSE IF script = "debug" /\ r = 0 THEN "save_inputs"
           ELSE "start"]
    /\ UNCHANGED <<config, temp_index, arrays, current_energy, prev_energy, iter,
                   accepted_moves, counters, locals, ndraw, pre, decision_log,
                   sweep_history>>

\* debug.py 163-168: rank 0 saves the lattice it loaded, its strain field and
\* its spectrum
SaveInputs ==
    /\ script = "debug"
    /\ pc[0] = "save_inputs"
    /\ saved' = saved \cup {<<-1, "spins1">>, <<-1, "strain1">>, <<-1, "strainft1">>}
    /\ pc' = [pc EXCEPT ![0] = "start"]
    /\ UNCHANGED <<config, temp_index, arrays, current_energy, prev_energy, iter,
                   accepted_moves, step, zero_move_steps, stable_steps,
                   terminate_flag, dErel, locals, ndraw, pre, decision_log,
                   sweep_history>>

\* mac6.py 191-197, mac5.py 195-201: comm.bcast of epsilon_1, epsilon_2,
\* epsilon_3, q_grid, B, strain_ft from rank 0
BcastSetup ==
    /\ Coordinated(script)
    /\ AllAt("bcast_setup")
    /\ material' = [r \in Ranks |->
           IF r = 0 THEN material[0] ELSE [eps |-> material[0].eps, C |-> None]]
    /\ pc' = [r \in Ranks |-> "start"]
    /\ UNCHANGED <<script, size, lattice_size, temperature, seed, params, error,
                   temp_index, arrays, current_energy, prev_energy, iter,
                   accepted_moves, counters, locals, ndraw, pre, decision_log,
                   sweep_history>>

NextStartup ==
    \/ \E r \in Ranks : LoadSpins(r)
    \/ \E r \in Ranks : OpenLogs(r)
    \/ \E r \in Ranks : BuildMaterial(r)
    \/ \E r \in Ranks : BuildKernel(r)
    \/ SaveInputs
    \/ BcastSetup

SpecStartup == InitStartup /\ [][NextStartup]_vars

(***************************************************************************)
(* The strain lookup alone: compute_strain_field on any lattice, its cells *)
(* holding the three spins or any other value.                             *)
(***************************************************************************)
\* cell values 0..MaxSpin
MaxSpin == 4

\* lattices of one value with at most one cell of another
StrainInputs ==
    {[Uniform(N, a) EXCEPT ![x] = b] : a, b \in 0..MaxSpin, x \in Sites(N)}

InitStrain ==
    /\ script \in Scripts
    /\ size \in 1..MaxSize
    /\ lattice_size = N
    /\ seed = [r \in 0..(size - 1) |-> 0]
    /\ temperature = TemperatureOf(script, 0)
    /\ pc = [r \in 0..(size - 1) |-> "strain"]
    /\ \E lattice \in StrainInputs :
         lattice_spins = [r \in 0..(size - 1) |-> lattice]
    /\ strain_field = [r \in 0..(size - 1) |-> None]
    /\ strain_ft_new = [r \in 0..(size - 1) |-> None]
    /\ params = ParamsOf(script)
    /\ error = [r \in 0..(size - 1) |-> ""]
    /\ material = [r \in 0..(size - 1) |-> StartupMaterial(script, r)]
    /\ saved = StartupOutputs(script)
    /\ Blank

\* strain_field = compute_strain_field(lattice_spins, epsilon_1, epsilon_2,
\* epsilon_3) (sporc_mpi6.py 152, debug.py 150); no branch of the lookup raises
ComputeStrain(r) ==
    /\ pc[r] = "strain"
    /\ strain_field' = [strain_field EXCEPT ![r] =
           compute_strain_field(lattice_size, lattice_spins[r], material[r].eps)]
    /\ pc' = [pc EXCEPT ![r] = "strain_done"]
    /\ UNCHANGED <<config, temp_index, lattice_spins, strain_ft, current_energy,
                   prev_energy, iter, accepted_moves, counters, locals, ndraw,
                   pre, decision_log, sweep_history>>

NextStrain == \E r \in Ranks : ComputeStrain(r)

SpecStrain == InitStrain /\ [][NextStrain]_vars

(***************************************************************************)
(* Properties                                                              *)
(***************************************************************************)
\* every worker has just left a collective: the bcast of strain_ft_new, the
\* energy reduce and bcast, the bcast of accepted, the bcast of
\* terminate_flag, or the set-up of a stage
AfterCollective ==
    \/ Coordinated(script) /\ AllAt("reduce")
    \/ AllAt("decide")
    \/ Coordinated(script) /\ AllAt("returned")
    \/ AllAt("propose") /\ \A r \in Ranks : iter[r] = 0
    \/ AllAt("after_loop")

\* C1: at every synchronization point every worker holds the same spin
\* lattice, for any worker count
C1_LatticeIdenticalAtSync ==
    AfterCollective => \A r \in Ranks : lattice_spins[r] = lattice_spins[0]

\* C2: after every call of monte_carlo_step has returned, every worker holds
\* the same current energy, accepted or rejected
C2_EnergyIdenticalAfterCall ==
    AllAt("returned") => \A r \in Ranks : current_energy[r] = current_energy[0]

\* C3: after a rejected proposal a worker's lattice, strain field, strain
\* spectrum and current energy are what they were when the call began
C3_RejectRestores ==
    \A r \in Ranks :
        (pc[r] = "returned" /\ accepted[r] = "False") => Snapshot(r) = pre[r]

\* the evaluator's global result for a lattice: every worker's partial sum
\* of the spectrum of the lattice's strain field, reduced
GlobalEnergy(lattice) ==
    LET ft == fftn(N, compute_strain_field(N, lattice, eps(script)))
    IN  ReduceSum([r \in Ranks |-> compute_elastic_energy(N, B(script), ft, r, size)])

\* C4: between calls the coordinating worker's current energy is the
\* evaluator's global result for its current lattice
C4_EnergyMatchesLattice ==
    pc[0] = "returned" => current_energy[0] = GlobalEnergy(lattice_spins[0])

(***************************************************************************)
(* The single-worker run of mac6.py, as a function of the generator's      *)
(* start state: the run every worker count is to reproduce.                *)
(***************************************************************************)
\* one call of monte_carlo_step with size = 1: the i-th call of the run
SingleWorkerCall(sd, st, i) ==
    LET site          == StreamSite(sd, i)
        current_spin  == st.lattice_spins[site]
        proposed_spin == OtherSpins(current_spin)[StreamChoice(sd, i)]
        tentative     == [st.lattice_spins EXCEPT ![site] = proposed_spin]
        ft_new        == fftn(N, compute_strain_field(N, tentative, eps("mac6")))
        energy_new    == compute_elastic_energy(N, B("mac6"), ft_new, 0, 1)
        ok            == Metropolis(energy_new - st.current_energy,
                                    TemperatureOf("mac6", 0), StreamDraw(sd, i))
    IN  [lattice_spins    |-> IF ok THEN tentative ELSE st.lattice_spins,
         current_energy   |-> IF ok THEN energy_new ELSE st.current_energy,
         accepted_moves   |-> IF ok THEN st.accepted_moves + 1 ELSE st.accepted_moves,
         zero_move_steps  |-> st.zero_move_steps,
         decisions        |-> Append(st.decisions, ok)]

\* the run from its i-th call on: N^3 calls a sweep, then the zero-move test
RECURSIVE SingleWorkerFrom(_, _, _)
SingleWorkerFrom(sd, st, i) ==
    LET after == SingleWorkerCall(sd, st, i)
        zero  == IF after.accepted_moves <= 0 THEN after.zero_move_steps + 1 ELSE 0
    IN  IF Len(after.decisions) % (N * N * N) # 0
        THEN SingleWorkerFrom(sd, after, i + 1)
        ELSE IF zero >= max_stable_steps \/ i + 1 >= num_steps * N * N * N
        THEN after
        ELSE SingleWorkerFrom(sd, [after EXCEPT !.accepted_moves = 0,
                                                !.zero_move_steps = zero], i + 1)

SingleWorkerRun ==
    [sd \in Seeds |->
        SingleWorkerFrom(sd, [lattice_spins |-> AllOnes, current_energy |-> 0,
                              accepted_moves |-> 0, zero_move_steps |-> 0,
                              decisions |-> <<>>], 0)]

\* C5: with the same initial lattice and the same sequence of random draws,
\* a run with any worker count makes the decisions of the single-worker run
\* and ends with its energy (mac6.py, whose workers share one proposal)
C5_SameAsSingleWorker ==
    (script = "mac6" /\ AllAt("done"))
        => /\ decision_log[0] = SingleWorkerRun[seed[0]].decisions
           /\ current_energy[0] = SingleWorkerRun[seed[0]].current_energy

\* C6: the slabs of ranks 0..size-1 hold every first-axis index exactly once;
\* a worker's partial sum counts a wavevector exactly when it is nonzero and
\* in the worker's slab; the reduced sum is the sum of a single worker
C6_SlabsPartitionSpectrum ==
    /\ \A qx \in 0..(lattice_size - 1) :
           Cardinality({r \in Ranks : qx \in Slab(lattice_size, r, size)}) = 1
    /\ \A r \in Ranks, q0 \in Sites(lattice_size) :
           (pc[r] # "energy" /\ strain_ft_new[r] = UnitSpectrum(lattice_size, q0))
               => (local_E_new[r] # 0
                       <=> (q0 # <<0, 0, 0>> /\ q0[1] % size = r))
    /\ AllAt("decide")
           => E_new[0] = compute_elastic_energy(
                             lattice_size, KernelFor(lattice_size, script),
                             strain_ft_new[0], 0, 1)

\* more workers than first-axis indices, a nonzero wavevector, reduced
C6_Witness ==
    /\ AllAt("decide")
    /\ size > lattice_size
    /\ E_new[0] # 0
    /\ \E r \in Ranks : Slab(lattice_size, r, size) = {}

\* C7: when a sweep ends, the workers together have resolved N^3 proposals
C7_SweepResolvesVolume ==
    AllAt("bcast_term") => h_resolved = N * N * N

\* the workers that draw and decide: rank 0, or every worker for itself
Deciders == IF Coordinated(script) THEN {0} ELSE Ranks

\* the draw u = exp(-d) is below exp(-dE / T)
BelowBoltzmann(d, dE, T) == d = DrawZero \/ dE < d * T

\* C8: a proposal whose energy change is <= 0 is accepted whatever the
\* generator draws; one whose change is > 0 is accepted exactly when the draw
\* is below exp(-dE/T), and rejected when the draw is forced to 1.0
C8_MetropolisRule ==
    \A r \in Deciders :
        pc[r] = "returned" =>
            LET d  == StreamDraw(seed[r], ndraw[r] - 1)
                dE == E_new[r] - pre[r].current_energy
            IN  /\ (dE <= 0 /\ d # DrawOne) => accepted[r] = "True"
                /\ dE > 0 => (accepted[r] = "True" <=> BelowBoltzmann(d, dE, temperature))
                /\ (dE > 0 /\ d = DrawOne) => accepted[r] = "False"

\* an uphill proposal accepted on a draw of the generator, and returned
C8_Witness ==
    \E r \in Deciders :
        /\ pc[r] = "returned"
        /\ accepted[r] = "True"
        /\ E_new[r] > pre[r].current_energy
        /\ StreamDraw(seed[r], ndraw[r] - 1) \in 1..MaxLevel

\* C9: at the end of the first sweep at which the relative energy change has
\* been below the tolerance for max_stable_steps consecutive sweeps, the
\* coordinating worker has set the stop flag, moves accepted or not
C9_StabilisationStops ==
    (pc[0] = "bcast_term" /\ h_stable_run >= max_stable_steps) => terminate_flag[0]

\* C10: the zero-move count of the coordinating worker is the number of
\* consecutive sweeps, up to this one, in which no worker accepted a
\* proposal, and stagnation stops the run exactly when that number reaches
\* max_stable_steps
C10_StagnationCountsAllWorkers ==
    AllAt("bcast_term") =>
        LET run == IF h_any_accepted THEN 0 ELSE h_zero_run + 1
        IN  /\ zero_move_steps[0] = run
            /\ (zero_move_steps[0] >= max_stable_steps) <=> (run >= max_stable_steps)

\* C11: when a stage is over, its final lattice has been saved exactly once:
\* as converged (final_spins) or as unstabilized (maxStep_spins), never both
\* and never neither
C11_OneTerminalOutcome ==
    (pc[0] \in {"start", "done"} /\ temp_index >= 0)
        => \A t \in 0..temp_index :
               (<<t, "final_spins">> \in saved) # (<<t, "maxStep_spins">> \in saved)

\* a worker is inside the sweep loop of main()
InSweepLoop(r) ==
    pc[r] \in {"propose", "bcast_ft", "reduce", "decide", "bcast_acc", "returned",
               "sweep_end", "bcast_term"}

\* C12: once the flag of a sweep has been broadcast every worker holds the
\* value of the coordinating worker, and the workers are in the same sweep:
\* all of them are inside the sweep loop, at the same sweep number, or all
\* of them have left it
C12_SameFlagSameSweep ==
    /\ (\A r \in Ranks : pc[r] \notin {"sweep_end", "bcast_term"})
           => \A r \in Ranks : terminate_flag[r] = terminate_flag[0]
    /\ \A r \in Ranks : InSweepLoop(r) <=> InSweepLoop(0)
    /\ \A r \in Ranks : step[r] = step[0]

\* several workers have left the loop before the sweep budget, on the flag
\* the coordinating worker set
C12_Witness ==
    /\ size > 1
    /\ AllAt("after_loop")
    /\ step[0] < num_steps
    /\ \A r \in Ranks : terminate_flag[r]

\* a worker that builds the material model has been through it
MaterialAttempted(r) ==
    /\ Coordinated(script) => r = 0
    /\ pc[r] \in {"raised", "kernel", "bcast_setup", "save_inputs", "start"}

\* C13: building the material model raises exactly when anisoPar <= 0 or
\* gamma_0 = 0, and then leaves neither strains nor a stiffness tensor
C13_InvalidMaterialFails ==
    \A r \in Ranks :
        MaterialAttempted(r) =>
            /\ (params.anisoPar <= 0 \/ params.gamma_0 = 0) <=> error[r] # ""
            /\ error[r] # "" => material[r] = [eps |-> None, C |-> None]

\* C14: when a worker's main() has ended on an error (ZeroDivisionError of
\* the material model, ValueError of the spin file), no output file has been
\* created
C14_AbortBeforeOutput ==
    (\E r \in Ranks : error[r] # "") => saved = {}

\* C15: with a spins.txt that does not hold N^3 values no worker of debug.py
\* gets past the load: it has stopped there, on the ValueError, before the
\* material model, the kernel, the initial energy and the sweeps
C15_WrongFileStopsEarly ==
    (script = "debug"
        /\ params.file_len # lattice_size * lattice_size * lattice_size)
        => \A r \in Ranks :
               /\ pc[r] \in {"load_spins", "stopped"}
               /\ pc[r] = "stopped" => error[r] = "ValueError"
               /\ material[r] = [eps |-> None, C |-> None]

\* every worker has stopped on a file that is one value short
C15_Witness ==
    /\ script = "debug"
    /\ size > 1
    /\ params.file_len = lattice_size * lattice_size * lattice_size - 1
    /\ AllAt("stopped")

\* C16: at the end of a sweep that began at energy zero, the relative change
\* rank 0 holds is zero, and a script that counts stable sweeps has counted
\* this one (a change of zero is below the tolerance)
C16_ZeroBaselineGuarded ==
    (pc[0] = "bcast_term" /\ prev_energy[0] = 0)
        => /\ dErel[0] = "0"
           /\ CountsStable(script) => stable_steps[0] >= 1


\* the lattice of a worker is uniform: one spin state at every site
IsUniform(n, lattice) ==
    lattice # None /\ \A x \in Sites(n) : lattice[x] = lattice[<<0, 0, 0>>]

\* C17: for a uniform lattice in any of the three spin states, the strain
\* spectrum is zero at every nonzero wavevector, every worker's partial sum
\* is zero, and so is the reduced energy
C17_UniformLatticeZeroEnergy ==
    \A r \in Ranks :
        IsUniform(lattice_size, lattice_spins[r]) =>
            /\ \A q \in Sites(lattice_size) :
                   ~IsZeroWavevector(lattice_size, q)
                       => \A i, j \in Idx : strain_ft_new[r][q][i][j] = <<0, 0>>
            /\ pc[r] # "energy" => local_E_new[r] = 0
            /\ pc[r] = "decide" => E_new[r] = 0

\* a uniform lattice reduced by several workers on a grid with nonzero
\* wavevectors; the zero-wavevector component of its spectrum is present
C17_Witness ==
    /\ AllAt("decide")
    /\ size > 1
    /\ lattice_size = 2
    /\ lattice_spins[0] \in {Uniform(2, sp) : sp \in 1..3}
    /\ strain_ft_new[0][<<0, 0, 0>>] # [i \in Idx |-> [j \in Idx |-> <<0, 0>>]]
    /\ E_new[0] = 0

\* the reference configuration: side 4, every spin 1, anisotropy 1,
\* epsilon_a 0, gamma_0 0.4
ReferenceConfiguration ==
    /\ lattice_size = ReferenceSide
    /\ epsilon_a(script) = 0
    /\ params.anisoPar = 1
    /\ params.gamma_0 = 4
    /\ \A r \in Ranks : lattice_spins[r] = Uniform(ReferenceSide, 1)

\* C18 as stated: the energy of the reference configuration is a finite
\* nonzero value
C18_ReferenceEnergyNonzero ==
    (ReferenceConfiguration /\ AllAt("decide")) => E_new[0] # 0

\* C18, amended: the spectrum of the reference configuration is N^3 times
\* epsilon_1 at the zero wavevector and zero elsewhere, and its energy is the
\* finite value zero
C18_ReferenceEnergyZero ==
    ReferenceConfiguration =>
        /\ \A r \in Ranks, q \in Sites(lattice_size), i, j \in Idx :
               strain_ft_new[r][q][i][j] =
                   IF q = <<0, 0, 0>> /\ i = 0 /\ j = 0
                   THEN <<lattice_size * lattice_size * lattice_size * params.gamma_0, 0>>
                   ELSE <<0, 0>>
        /\ AllAt("decide") => \A r \in Ranks : E_new[r] = 0

\* the reference configuration evaluated by several workers and reduced
C18_Witness ==
    /\ ReferenceConfiguration
    /\ script = "mac6"
    /\ size > 1
    /\ AllAt("decide")
    /\ \A r \in Ranks : local_E_new[r] = 0

\* C19: a stiffness tensor built for an anisotropy a > 0 is unchanged by the
\* exchange of its index pairs, and its shear entries C[i, j, i, j], i # j,
\* are 1 (the tensor is held multiplied by a, so the entry is a)
C19_StiffnessSymmetricUnitShear ==
    \A r \in Ranks :
        (params.anisoPar > 0 /\ material[r].C # None) =>
            /\ \A i, j, k, l \in Idx :
                   material[r].C[i][j][k][l] = material[r].C[k][l][i][j]
            /\ \A i, j \in Idx :
                   i # j => material[r].C[i][j][i][j] = 1 * params.anisoPar

\* a tensor built for an anisotropy other than the scripts' own
C19_Witness ==
    /\ params.anisoPar = 2
    /\ \E r \in Ranks : pc[r] = "kernel" /\ material[r].C # None
                          /\ material[r].C[0][0][0][0] = 2 * material[r].C[0][1][0][1]

\* C20: at every nonzero wavevector of the grid, the kernel the script's
\* builder returns is unchanged by the exchange of its index pairs
C20_KernelPairSymmetric ==
    lattice_size \in DOMAIN KernelTable =>
        \A q \in Sites(lattice_size) :
            ~IsZeroWavevector(lattice_size, q) =>
                \A i, j, k, l \in Idx :
                    KernelFor(lattice_size, script)[q][i][j][k][l]
                        = KernelFor(lattice_size, script)[q][k][l][i][j]

\* C21: the kernel entry at grid index (0, 0, 0) is the zero tensor, and
\* (0, 0, 0) is the only grid point the builder skips
C21_ZeroWavevectorOnlyUnassigned ==
    lattice_size \in DOMAIN KernelTable =>
        /\ KernelFor(lattice_size, script)[<<0, 0, 0>>] = ZeroTensor
        /\ {q \in Sites(lattice_size) : KernelSkipped(lattice_size, q)} = {<<0, 0, 0>>}

\* a kernel built on a grid with nonzero wavevectors, one along the third
\* axis holding a nonzero entry
C21_Witness ==
    /\ lattice_size = 2
    /\ AllAt("decide")
    /\ ~KernelSkipped(2, <<0, 0, 1>>)
    /\ KernelFor(2, script)[<<0, 0, 1>>] # ZeroTensor

\* the workers that chose a site and a spin in the current call
Proposers == {r \in Ranks : proposal[r] # None}

\* C22: when every worker holds its partial energy of a call, exactly one
\* worker has chosen the proposal, and every worker's partial energy is that
\* of one and the same tentative spectrum
C22_OneProposerSharedProposal ==
    AllAt("reduce") =>
        /\ Cardinality(Proposers) = 1
        /\ \A r \in Ranks :
               /\ strain_ft_new[r] = strain_ft_new[0]
               /\ local_E_new[r] = compute_elastic_energy(
                                        N, B(script), strain_ft_new[0], r, size)

\* the workers that drew random.random() in the call they have returned from
Drawers ==
    {r \in Ranks : pc[r] = "returned" /\ ndraw[r] > 0
                       /\ Len(decision_log[r]) = ndraw[r]}

\* C23: when every worker has returned from a call, exactly one worker has
\* drawn the acceptance number, every worker holds the same outcome, and
\* every worker's lattice holds the proposed spin at the proposed site if the
\* outcome is acceptance and the previous spin if it is rejection
C23_OneDrawSameOutcome ==
    AllAt("returned") =>
        /\ Cardinality(Drawers) = 1
        /\ \A r \in Ranks :
               /\ accepted[r] = accepted[0]
               /\ lattice_spins[r][proposal[0].site] =
                      IF accepted[0] = "True" THEN proposal[0].proposed_spin
                      ELSE proposal[0].current_spin

\* C24: when a worker has returned from a call, accepted or rejected, the
\* strain field it stores is the per-site lookup of its lattice, and the
\* spectrum it stores is the transform of the lookup of its lattice
C24_FieldAndSpectrumFollowLattice ==
    \A r \in Ranks :
        pc[r] = "returned" =>
            /\ strain_field[r] # None =>
                   strain_field[r] = compute_strain_field(N, lattice_spins[r], eps(script))
            /\ strain_ft[r] =
                   fftn(N, compute_strain_field(N, lattice_spins[r], eps(script)))

\* C25: a sweep that rank 0 has counted as energy-stable changed the energy
\* by less than the tolerance times the magnitude of the energy the sweep
\* began at, whatever the sign of that energy
C25_StableMeansSmallMagnitude ==
    (CountsStable(script) /\ pc[0] = "bcast_term" /\ stable_steps[0] > 0)
        => /\ prev_energy[0] # 0
           /\ Abs(current_energy[0] - prev_energy[0])
                  <= ((Abs(prev_energy[0]) - 1) \div TolRoot) \div TolRoot

\* the calls of monte_carlo_step a worker has begun in the stage: those it
\* has finished and the one it is inside
CallsBegun(r) ==
    (step[r] - 1) * SweepLength + iter[r]
        + (IF pc[r] \in {"bcast_ft", "reduce", "decide", "bcast_acc", "returned"}
           THEN 1 ELSE 0)

\* the calls whose accept/reject outcome a worker holds
DecisionsObserved(r) ==
    (step[r] - 1) * SweepLength + iter[r] + (IF pc[r] = "returned" THEN 1 ELSE 0)

\* C26: a worker that has begun a call finds every worker holding the
\* outcomes of all earlier calls, and a worker that has done the end-of-sweep
\* check finds every worker holding the outcome of the sweep's last call
C26_NoProposalBeforeDecisionSeen ==
    \A r, w \in Ranks :
        /\ (pc[r] \in {"bcast_ft", "reduce", "decide", "bcast_acc", "returned"})
               => CallsBegun(r) - 1 <= DecisionsObserved(w)
        /\ pc[r] = "bcast_term" => step[r] * SweepLength <= DecisionsObserved(w)

\* the places where a worker waits for all the others
Collectives == {"bcast_setup", "bcast_ft", "reduce", "bcast_acc", "bcast_term"}

\* the places where a worker's main() has ended
Ended == {"raised", "stopped", "done"}

\* C27: a worker that waits at a collective is never left alone there: no
\* worker has ended, and every other worker that waits does so at the same
\* collective of the same call of the same sweep
C27_NoWorkerStranded ==
    \A r, w \in Ranks :
        pc[r] \in Collectives =>
            /\ pc[w] \notin Ended
            /\ pc[w] \in Collectives =>
                   pc[w] = pc[r] /\ step[w] = step[r] /\ iter[w] = iter[r]

\* C28: no worker runs more than num_steps sweeps in a stage, the workers
\* have left the sweep loop only with the stop flag set or the budget used
\* up, and from the start of any sweep they do leave it
C28_StageTerminates ==
    /\ [](\A r \in Ranks : step[r] <= num_steps)
    /\ [](AllAt("after_loop") => (terminate_flag[0] \/ step[0] = num_steps))
    /\ (AllAt("propose") ~> AllAt("after_loop"))

\* several workers have left the loop on the exhausted budget, some proposal
\* accepted and some rejected on the way
C28_Witness ==
    /\ size > 1
    /\ AllAt("after_loop")
    /\ ~terminate_flag[0]
    /\ step[0] = num_steps
    /\ \E i, j \in 1..Len(decision_log[0]) :
           decision_log[0][i] /\ ~decision_log[0][j]

\* a worker holds a proposal it has neither accepted nor reverted yet
Unresolved(r) ==
    proposal[r] # None /\ pc[r] \in {"bcast_ft", "reduce", "decide", "bcast_acc"}

\* C29: once rank 0 has evaluated the stop flag of a sweep, and so when the
\* flag is broadcast, no worker holds an unresolved proposal
C29_ResolvedBeforeStopCheck ==
    pc[0] = "bcast_term" => \A r \in Ranks : ~Unresolved(r)

\* every worker stands before the first proposal of a stage
StageStart ==
    /\ AllAt("propose")
    /\ \A r \in Ranks : step[r] = 1 /\ iter[r] = 0

\* the arrays and the energy sporc_mpi6.py sets up for the current stage
FreshStage ==
    LET lats   == [r \in Ranks |-> StreamLattice(seed[r], temp_index)]
        field  == [r \in Ranks |-> compute_strain_field(N, lats[r], eps(script))]
        ft     == [r \in Ranks |-> fftn(N, field[r])]
        energy == ReduceSum([r \in Ranks |->
                      compute_elastic_energy(N, B(script), ft[r], r, size)])
    IN  /\ lattice_spins = lats
        /\ strain_field = field
        /\ strain_ft = ft
        /\ current_energy = [r \in Ranks |-> energy]

\* C30: at the start of every temperature stage the lattice, the strain field,
\* the spectrum and the energy are the freshly drawn and computed ones, the
\* stop flag is clear and both consecutive-sweep counters are zero
C30_StageStartsFresh ==
    StageStart =>
        /\ \A r \in Ranks : /\ ~terminate_flag[r]
                             /\ zero_move_steps[r] = 0
                             /\ stable_steps[r] = 0
        /\ script = "sporc_mpi6" => FreshStage

\* the second stage starts after a first stage that stopped on its flag
C30_Witness ==
    /\ StageStart
    /\ script = "sporc_mpi6"
    /\ temp_index = 1
    /\ <<0, "final_spins">> \in saved
    /\ \E r \in Ranks : StreamLattice(seed[r], 1) # StreamLattice(seed[r], 0)

\* the cells of worker r's lattice that differ from the lattice its call began with
ChangedCells(r) ==
    {x \in Sites(N) : lattice_spins[r][x] # pre[r].lattice_spins[x]}

\* C31: when a call of monte_carlo_step has returned, the worker's lattice
\* differs from the lattice the call began with in no cell, or in the proposal
\* site alone and then the call returned accepted
C31_CallChangesAtMostProposalSite ==
    \A r \in Ranks :
        (pc[r] = "returned" /\ pre[r] # None) =>
            \/ ChangedCells(r) = {}
            \/ /\ accepted[r] = "True"
               /\ proposal[r] # None
               /\ ChangedCells(r) = {proposal[r].site}

\* a rejected call has returned with the lattice as it was, after an accepted
\* call of the same worker changed a cell
C31_Witness ==
    \E r \in Ranks :
        /\ pc[r] = "returned"
        /\ pre[r] # None
        /\ proposal[r] # None
        /\ accepted[r] = "False"
        /\ ChangedCells(r) = {}
        /\ \E i \in 1..Len(decision_log[r]) : decision_log[r][i]

SpinValues == {1, 2, 3}

\* C32: every proposal in flight offers one of the two spins of {1,2,3} other
\* than the site's spin when the call began, and every cell of every worker's
\* lattice holds a value of {1,2,3}
C32_ProposalIsOtherSpin ==
    \A r \in Ranks :
        /\ proposal[r] # None =>
               /\ proposal[r].proposed_spin # proposal[r].current_spin
               /\ proposal[r].proposed_spin \in SpinValues
               /\ proposal[r].current_spin \in SpinValues
        /\ lattice_spins[r] # None =>
               \A x \in Sites(N) : lattice_spins[r][x] \in SpinValues

\* a worker has accepted proposals and its lattice holds all three spins, while
\* it offers a further proposal at a site that no longer holds spin 1
C32_Witness ==
    \E r \in Ranks :
        /\ proposal[r] # None
        /\ proposal[r].current_spin # 1
        /\ \E i \in 1..Len(decision_log[r]) : decision_log[r][i]
        /\ \E x, y \in Sites(N) : lattice_spins[r][x] = 2 /\ lattice_spins[r][y] = 3

\* C33: the strain field compute_strain_field returns holds, at every site,
\* epsilon_s where the spin is s = 1, 2 or 3 and the zero tensor where the
\* spin is any other value, and the call raises no error
C33_StrainLookupWithZeroDefault ==
    \A r \in Ranks :
        pc[r] = "strain_done" =>
            /\ error[r] = ""
            /\ \A x \in Sites(lattice_size) :
                   \A s \in SpinValues :
                       lattice_spins[r][x] = s =>
                           strain_field[r][x] = material[r].eps[s]
            /\ \A x \in Sites(lattice_size) :
                   lattice_spins[r][x] \notin SpinValues =>
                       \A i, j \in Idx : strain_field[r][x][i][j] = 0

\* a lattice with a cell outside {1,2,3} beside a cell whose reference strain
\* is not zero has been looked up
C33_Witness ==
    \E r \in Ranks :
        /\ pc[r] = "strain_done"
        /\ \E x, y \in Sites(lattice_size) :
              /\ lattice_spins[r][x] \notin SpinValues
              /\ strain_field[r][x] = ZeroMat
              /\ lattice_spins[r][y] \in SpinValues
              /\ strain_field[r][y] # ZeroMat

=========================================================================
